---- MODULE Spec2Model ----
(***************************************************************************)
(* Model of doppelganger.js: the init() serializer (initialising flag and  *)
(* initQueue), the _initRequireJS pipeline with its four asynchronous      *)
(* callbacks, and the reference-counted global overlay (_setGlobal,        *)
(* _unsetGlobal, _exposeGlobals).                                          *)
(*                                                                         *)
(* A "request" is one call of init(callback).  Requests are numbered in    *)
(* the order in which init() is called.  Every request that reaches        *)
(* _initRequireJS owns one closure: its own window, its own `globals`      *)
(* dictionary and, once Backbone is patched, its own wrapped history       *)
(* methods.  A window, navigator or document value is identified by the    *)
(* number of the request whose pipeline created it; 0 stands for null, an  *)
(* absent key or an absent global slot.                                    *)
(***************************************************************************)
EXTENDS Naturals, Sequences, FiniteSets

\* ---------------------------------------------------------------- bounds
NumApps  == 2    \* Doppelganger instances constructed
MaxReq   == 3    \* init() calls made in a run
MaxDepth == 2    \* nesting depth of wrapped history calls
MaxThrows == 1   \* wrapped history calls that throw in a run
MaxCallReq == 2  \* init() calls made in a run with wrapped history calls
MaxRouteReq == 1  \* init() calls in a run of the routing calls
MaxRoutes == 2    \* handlers in one history.handlers array
MaxNest  == 3    \* nesting depth of installs in the overlay harness

Apps  == 1..NumApps
Reqs  == 1..MaxReq
Names == {"window", "navigator", "document"}
Ops   == {"start", "stop", "navigate"}

\* What fs.readFile hands to its callback: an error, or the file's text.
\* The text is classified by what _getConfigObject does with it.
FileData == {"error", "nocall", "falsy", "nodeps", "emptydeps", "deps"}

VARIABLES
  initialising,      \* module-level flag
  initQueue,         \* module-level queue of waiting requests
  nextReq,           \* number of the next init() call
  reqApp,            \* reqApp[r]: the instance init() was called on
  early,             \* init() calls made before any callback was invoked
  pc,                \* pc[r]: where request r is
  document,          \* this._document, per instance
  requirejsH,        \* this._requirejs, per instance
  backbone,          \* this._backbone, per instance
  global,            \* the process-wide global object, per binding name
  globals,           \* globals[r]: the `globals` dictionary of r's closure
  rootDependencies,  \* rootDependencies[r]: the local of r's readFile callback
  loaderConfig,      \* what r handed to requirejs.config
  stack,             \* wrapped history calls in progress, innermost first
  admitted,          \* requests in the order they entered the pipeline
  callbacks,         \* requests in the order their callback was invoked
  trace,             \* trace[r]: what r's pipeline has done, in order
  outstanding,       \* _setGlobal calls minus _unsetGlobal calls, per name
  thrown,            \* wrapped history calls that exited by an exception
  returned,          \* some wrapped history call has returned normally
  lastCall,          \* the last overlay call of the harness and its result
  prior,             \* what the global object held before any overlay call
  handlers,          \* handlers[r]: history.handlers of the Backbone r loaded
  lastRoute          \* the last routeExists() or navigate() call and its outcome

vars == <<initialising, initQueue, nextReq, reqApp, early, pc, document, requirejsH,
          backbone, global, globals, rootDependencies, loaderConfig, stack,
          admitted, callbacks, trace, outstanding, thrown, returned,
          lastCall, prior, handlers, lastRoute>>

serVars  == <<initialising, initQueue, nextReq, reqApp, early, pc, document,
              admitted, callbacks, trace>>
instVars == <<requirejsH, backbone, rootDependencies, loaderConfig>>
ovlVars  == <<global, globals, outstanding>>
callVars == <<stack, thrown, returned>>
routeVars == <<handlers, lastRoute>>

\* ------------------------------------------------------- global overlay

\* _setGlobal assigning the global also when the name is already counted.
_setGlobal_overwrite(tbl, g, property, value) ==
  LET g2 == [g EXCEPT ![property] = value]
  IN [globals |-> [tbl EXCEPT ![property] = @ + 1],
      global  |-> g2,
      ret     |-> g2[property]]

\* _setGlobal(property, value) on dictionary tbl and global object g.
_setGlobal(tbl, g, property, value) ==
  LET g2 == IF tbl[property] > 0 THEN g ELSE [g EXCEPT ![property] = value]
  IN [globals |-> [tbl EXCEPT ![property] = @ + 1],
      global  |-> g2,
      ret     |-> g2[property]]

\* _unsetGlobal deleting the dictionary entry but not the global.
_unsetGlobal_keep(tbl, g, property) ==
  IF tbl[property] = 0
  THEN [globals |-> tbl, global |-> g, ret |-> FALSE]
  ELSE IF tbl[property] = 1
       THEN [globals |-> [tbl EXCEPT ![property] = 0],
             global  |-> g,
             ret     |-> TRUE]
       ELSE [globals |-> [tbl EXCEPT ![property] = @ - 1],
             global  |-> g,
             ret     |-> FALSE]

\* _unsetGlobal(property) on dictionary tbl and global object g.
_unsetGlobal(tbl, g, property) ==
  IF tbl[property] = 0
  THEN [globals |-> tbl, global |-> g, ret |-> FALSE]
  ELSE IF tbl[property] = 1
       THEN [globals |-> [tbl EXCEPT ![property] = 0],
             global  |-> [g EXCEPT ![property] = 0],
             ret     |-> TRUE]
       ELSE [globals |-> [tbl EXCEPT ![property] = @ - 1],
             global  |-> g,
             ret     |-> FALSE]

\* The bindings _initBackbone passes to _exposeGlobals for each method.
Bindings(op) ==
  CASE op = "start"    -> {"window", "navigator", "document"}
    [] op = "stop"     -> {"window"}
    [] op = "navigate" -> {"document"}

\* The first loop of an _exposeGlobals wrapper: install every binding.
\* Binding names are distinct keys, so the loop acts on each independently.
exposeInstall(tbl, g, props, value) ==
  [globals |-> [n \in Names |->
                  IF n \in props THEN _setGlobal(tbl, g, n, value).globals[n]
                                 ELSE tbl[n]],
   global  |-> [n \in Names |->
                  IF n \in props THEN _setGlobal(tbl, g, n, value).global[n]
                                 ELSE g[n]]]

\* The second loop of an _exposeGlobals wrapper: remove every binding.
exposeRemove(tbl, g, props) ==
  [globals |-> [n \in Names |->
                  IF n \in props THEN _unsetGlobal(tbl, g, n).globals[n]
                                 ELSE tbl[n]],
   global  |-> [n \in Names |->
                  IF n \in props THEN _unsetGlobal(tbl, g, n).global[n]
                                 ELSE g[n]]]

\* ---------------------------------------------------- config patching

\* configSearch && new Function(...)(): the object, or a falsy value.
ConfigFound(data) == data \notin {"nocall", "falsy"}

\* config.deps of the evaluated literal.
ConfigDeps(data) ==
  CASE data = "deps"      -> "list"
    [] data = "emptydeps" -> "empty"
    [] OTHER              -> "absent"

\* var rootDependencies = config.deps || null  (an empty array is truthy)
RootDeps(data) == IF ConfigDeps(data) = "absent" THEN "null" ELSE ConfigDeps(data)

\* The config handed on with its deps field left in place.
PatchedDeps_kept(data) == ConfigDeps(data)

\* delete config.deps: the deps field of the object given to requirejs.config
PatchedDeps(data) == "absent"

\* ------------------------------------------------------------ serializer

\* The part of the state init() and _handleAppInitialised act on.
SerState ==
  [initialising |-> initialising, initQueue |-> initQueue, nextReq |-> nextReq,
   reqApp |-> reqApp, early |-> early, pc |-> pc, document |-> document, admitted |-> admitted,
   callbacks |-> callbacks, trace |-> trace]

\* init() building the document before the admission check.
enqueue_built(s, r) ==
  [s EXCEPT !.initQueue = Append(@, r), !.pc[r] = "queued",
            !.document[s.reqApp[r]] = r]

\* init(), lines 68-69: the request waits.
enqueue(s, r) ==
  [s EXCEPT !.initQueue = Append(@, r), !.pc[r] = "queued"]

\* init() keeping a document the instance already has.
admit_keepdoc(s, r) ==
  [s EXCEPT !.initialising = TRUE,
            !.document[s.reqApp[r]] = IF @ # 0 THEN @ ELSE r,
            !.pc[r] = "reading",
            !.admitted = Append(@, r),
            !.trace[r] = @ \o <<"document", "readFile">>]

\* init(), lines 71-84: the request takes the slot, builds its document and
\* calls _initRequireJS, which creates the window and requests the file read.
admit(s, r) ==
  [s EXCEPT !.initialising = TRUE,
            !.document[s.reqApp[r]] = r,
            !.pc[r] = "reading",
            !.admitted = Append(@, r),
            !.trace[r] = @ \o <<"document", "readFile">>]

\* init() without the admission check of line 67.
init_unguarded(s, r) == admit(s, r)

\* Doppelganger.prototype.init for request r.
init(s, r) == IF s.initialising THEN enqueue(s, r) ELSE admit(s, r)

\* A new call app.init(callback): it becomes request s.nextReq.
request(s, app) ==
  init([s EXCEPT !.reqApp[s.nextReq] = app,
                 !.early = IF s.callbacks = <<>> THEN @ + 1 ELSE @,
                 !.nextReq = @ + 1],
       s.nextReq)

\* initQueue.pop() in place of shift(): the newest entry is taken.
shift_pop(q) == [item |-> q[Len(q)], rest |-> SubSeq(q, 1, Len(q) - 1)]

\* initQueue.shift(): the entry taken and the queue left.
shift(q) == [item |-> Head(q), rest |-> Tail(q)]

\* _handleAppInitialised leaving the queue as it is.
_handleAppInitialised_release(s, r, nested) ==
  LET s1 == [s EXCEPT !.initialising = FALSE,
                      !.pc[r] = "done",
                      !.trace[r] = Append(@, "complete")]
      s3 == [s1 EXCEPT !.callbacks = Append(@, r),
                       !.trace[r] = Append(@, "callback")]
  IN IF nested # 0
     THEN request([s3 EXCEPT !.trace[r] = Append(@, "callbackInit")], nested)
     ELSE s3

\* _handleAppInitialised invoking the callback before it takes the next
\* entry from the queue.
_handleAppInitialised_callbackFirst(s, r, nested) ==
  LET s1 == [s EXCEPT !.initialising = FALSE,
                      !.pc[r] = "done",
                      !.trace[r] = Append(@, "complete")]
      s2 == [s1 EXCEPT !.callbacks = Append(@, r),
                       !.trace[r] = Append(@, "callback")]
      s3 == IF nested # 0
            THEN request([s2 EXCEPT !.trace[r] = Append(@, "callbackInit")],
                         nested)
            ELSE s2
  IN IF Len(s.initQueue) > 0
     THEN init([s3 EXCEPT !.initQueue = Tail(@)], Head(s.initQueue))
     ELSE s3

\* _handleAppInitialised of request r.  The user's callback may itself call
\* init() on an instance: nested is that instance, or 0 for none.
_handleAppInitialised(s, r, nested) ==
  LET s1 == [s EXCEPT !.initialising = FALSE,
                      !.pc[r] = "done",
                      !.trace[r] = Append(@, "complete")]
      s2 == IF Len(s1.initQueue) > 0
            THEN init([s1 EXCEPT !.initQueue = shift(s1.initQueue).rest],
                      shift(s1.initQueue).item)
            ELSE s1
      s3 == [s2 EXCEPT !.callbacks = Append(@, r),
                       !.trace[r] = Append(@, "callback")]
  IN IF nested # 0
     THEN request([s3 EXCEPT !.trace[r] = Append(@, "callbackInit")], nested)
     ELSE s3

\* Write a serializer state back to the variables.
SetSer(s) ==
  /\ initialising' = s.initialising
  /\ initQueue' = s.initQueue
  /\ nextReq' = s.nextReq
  /\ reqApp' = s.reqApp
  /\ early' = s.early
  /\ pc' = s.pc
  /\ document' = s.document
  /\ admitted' = s.admitted
  /\ callbacks' = s.callbacks
  /\ trace' = s.trace

\* The callbacks a user may pass: it calls init() on some instance, or not.
Nested == {0} \cup (IF nextReq <= MaxReq THEN Apps ELSE {})

\* ----------------------------------------------------------------- Init

InitWith(g) ==
  /\ initialising = FALSE
  /\ initQueue = <<>>
  /\ nextReq = 1
  /\ reqApp = [r \in Reqs |-> 0]
  /\ early = 0
  /\ pc = [r \in Reqs |-> "new"]
  /\ document = [a \in Apps |-> 0]
  /\ requirejsH = [a \in Apps |-> 0]
  /\ backbone = [a \in Apps |-> 0]
  /\ global = g
  /\ globals = [r \in Reqs |-> [n \in Names |-> 0]]
  /\ rootDependencies = [r \in Reqs |-> "unset"]
  /\ loaderConfig = [r \in Reqs |-> "unset"]
  /\ stack = <<>>
  /\ admitted = <<>>
  /\ callbacks = <<>>
  /\ trace = [r \in Reqs |-> <<>>]
  /\ outstanding = [n \in Names |-> 0]
  /\ thrown = 0
  /\ returned = FALSE
  /\ lastCall = [op |-> "none", name |-> "none", value |-> 0, ret |-> 0]
  /\ prior = global
  /\ handlers = [r \in Reqs |-> <<>>]
  /\ lastRoute = [op |-> "none", app |-> 0, path |-> "absent",
                  result |-> [kind |-> "none", handler |-> 0],
                  trigger |-> FALSE]

\* No name of the overlay is defined on the global object of a fresh process.
Init == InitWith([n \in Names |-> 0])

\* -------------------------------------------------------------- actions

\* A caller invokes app.init(callback).
CallInit(app) ==
  /\ nextReq <= MaxReq
  /\ stack = <<>>
  /\ SetSer(request(SerState, app))
  /\ UNCHANGED <<instVars, ovlVars, callVars, lastCall, prior, routeVars>>

\* The fs.readFile callback of request r, lines 169-190.
ReadFileCallback(r, data) ==
  /\ pc[r] = "reading"
  /\ stack = <<>>
  /\ IF data = "error" \/ ~ConfigFound(data)
     THEN \* throw error (line 170) or throw in _getConfigObject (line 228)
          /\ pc' = [pc EXCEPT ![r] = "crashed"]
          /\ trace' = [trace EXCEPT ![r] = Append(@,
                          IF data = "error" THEN "readError" ELSE "configError")]
          /\ UNCHANGED <<instVars, ovlVars>>
     ELSE LET set == _setGlobal(globals[r], global, "window", r)
          IN /\ rootDependencies' = [rootDependencies EXCEPT ![r] = RootDeps(data)]
             /\ loaderConfig' = [loaderConfig EXCEPT ![r] = PatchedDeps(data)]
             /\ requirejsH' = [requirejsH EXCEPT ![reqApp[r]] = r]
             /\ globals' = [globals EXCEPT ![r] = set.globals]
             /\ global' = set.global
             /\ outstanding' = [outstanding EXCEPT !["window"] = @ + 1]
             /\ pc' = [pc EXCEPT ![r] = "jquery"]
             /\ trace' = [trace EXCEPT ![r] = @ \o
                   (IF PatchedDeps(data) = "absent"
                    THEN <<"config">> ELSE <<"config", "loadRoot">>)
                   \o <<"setWindow", "loadJQuery">>]
             /\ UNCHANGED backbone
  /\ UNCHANGED <<initialising, initQueue, nextReq, reqApp, early, document,
                 admitted, callbacks, callVars, lastCall, prior, routeVars>>

\* The callback of requirejs(['jquery'], ...), lines 190-196.
JQueryCallback(r) ==
  /\ pc[r] = "jquery"
  /\ stack = <<>>
  /\ LET unset == _unsetGlobal(globals[r], global, "window")
     IN /\ globals' = [globals EXCEPT ![r] = unset.globals]
        /\ global' = unset.global
  /\ outstanding' = [outstanding EXCEPT !["window"] = @ - 1]
  /\ pc' = [pc EXCEPT ![r] = "backbone"]
  /\ trace' = [trace EXCEPT ![r] = @ \o <<"jquery", "unsetWindow", "loadBackbone">>]
  /\ UNCHANGED <<initialising, initQueue, nextReq, reqApp, early, document,
                 admitted, callbacks, instVars, callVars, lastCall, prior, routeVars>>

\* The callback of requirejs(['backbone'], ...), lines 196-218.
BackboneCallback(r, nested) ==
  /\ pc[r] = "backbone"
  /\ stack = <<>>
  /\ backbone' = [backbone EXCEPT ![reqApp[r]] = r]
  /\ LET s == [SerState EXCEPT !.trace[r] = @ \o <<"backbone", "patch">>]
     IN IF rootDependencies[r] # "null"
        THEN /\ nested = 0
             /\ SetSer([s EXCEPT !.pc[r] = "rootdeps",
                                 !.trace[r] = Append(@, "loadRoot")])
        ELSE SetSer(_handleAppInitialised(s, r, nested))
  /\ UNCHANGED <<requirejsH, rootDependencies, loaderConfig, ovlVars, callVars,
                 lastCall, prior, routeVars>>

\* The callback of requirejs(rootDependencies, ...), lines 207-210.
RootDepsCallback(r, nested) ==
  /\ pc[r] = "rootdeps"
  /\ stack = <<>>
  /\ SetSer(_handleAppInitialised(
              [SerState EXCEPT !.trace[r] = Append(@, "root")], r, nested))
  /\ UNCHANGED <<instVars, ovlVars, callVars, lastCall, prior, routeVars>>

\* _initBackbone has run in r's closure and the instance still holds the
\* Backbone it patched: r's wrapped history methods are the instance's.
Patched(r) == pc[r] \in {"rootdeps", "done"} /\ backbone[reqApp[r]] = r

\* A wrapped Backbone.history method of r's closure is entered (lines
\* 314-319): the wrapper installs its bindings and calls the original method.
\* The original runs user code, which may call further wrapped methods.
enterWrapped(r, op) ==
  /\ LET inst == exposeInstall(globals[r], global, Bindings(op), r)
     IN /\ globals' = [globals EXCEPT ![r] = inst.globals]
        /\ global' = inst.global
  /\ outstanding' = [n \in Names |->
                       IF n \in Bindings(op) THEN outstanding[n] + 1
                                             ELSE outstanding[n]]
  /\ stack' = <<[req |-> r, op |-> op]>> \o stack
  /\ UNCHANGED <<serVars, instVars, thrown, returned, lastCall, prior>>

\* A wrapped history method is called by user code.
WrappedCall(r, op) ==
  /\ Patched(r)
  /\ Len(stack) < MaxDepth
  /\ enterWrapped(r, op)
  /\ UNCHANGED routeVars

\* The innermost original method returns (lines 319-322): the wrapper removes
\* its bindings.
WrappedReturn ==
  /\ stack # <<>>
  /\ LET f == Head(stack)
         rem == exposeRemove(globals[f.req], global, Bindings(f.op))
     IN /\ globals' = [globals EXCEPT ![f.req] = rem.globals]
        /\ global' = rem.global
        /\ outstanding' = [n \in Names |->
                             IF n \in Bindings(f.op) THEN outstanding[n] - 1
                                                     ELSE outstanding[n]]
  /\ stack' = Tail(stack)
  /\ returned' = TRUE
  /\ UNCHANGED <<serVars, instVars, thrown, lastCall, prior, routeVars>>

\* The innermost original method throws (line 319): the exception leaves the
\* wrapper, and the second loop does not run.  The enclosing method, if any,
\* catches it and goes on, or lets it pass (a later WrappedThrow).
WrappedThrow ==
  /\ stack # <<>>
  /\ thrown < MaxThrows
  /\ stack' = Tail(stack)
  /\ thrown' = thrown + 1
  /\ UNCHANGED <<serVars, instVars, ovlVars, returned, lastCall, prior, routeVars>>

\* Doppelganger.prototype.require on an instance, lines 104-107: the error,
\* or the call forwarded to the loader the instance holds.
require(app) ==
  IF requirejsH[app] = 0
  THEN [result |-> "error", loader |-> 0]
  ELSE [result |-> "forwarded", loader |-> requirejsH[app]]

\* document.innerHTML: the markup a document serialises to.  <<>> is the
\* empty string.
innerHTML(doc) == <<"html", doc>>

\* Doppelganger.prototype.getHTML, lines 134-136.
getHTML(app) == IF document[app] # 0 THEN innerHTML(document[app]) ELSE <<>>

\* The serializer and the init pipeline.
Next ==
  \/ \E app \in Apps : CallInit(app)
  \/ \E r \in Reqs, data \in FileData : ReadFileCallback(r, data)
  \/ \E r \in Reqs : JQueryCallback(r)
  \/ \E r \in Reqs, nested \in Nested : BackboneCallback(r, nested)
  \/ \E r \in Reqs, nested \in Nested : RootDepsCallback(r, nested)

Spec == Init /\ [][Next]_vars

\* The init pipeline together with calls of the wrapped history methods, for
\* runs of at most MaxCallReq init() calls.
CallNested == {0} \cup (IF nextReq <= MaxCallReq THEN Apps ELSE {})

\* The file contents of these runs: every outcome of _getConfigObject, with
\* one kind of deps list.
CallFileData == FileData \ {"emptydeps"}

CallNext ==
  \/ \E app \in Apps : nextReq <= MaxCallReq /\ CallInit(app)
  \/ \E r \in Reqs, data \in CallFileData : ReadFileCallback(r, data)
  \/ \E r \in Reqs : JQueryCallback(r)
  \/ \E r \in Reqs, nested \in CallNested : BackboneCallback(r, nested)
  \/ \E r \in Reqs, nested \in CallNested : RootDepsCallback(r, nested)
  \/ \E r \in Reqs, op \in Ops : WrappedCall(r, op)
  \/ WrappedReturn
  \/ WrappedThrow

CallSpec == Init /\ [][CallNext]_vars

\* --------------------------------------------------------------- routing

\* The path arguments of routeExists() and navigate(): no argument, the empty
\* string, and two non-empty paths.  The first two are falsy.
Paths == {"absent", "", "/a", "/b"}
Falsy(path) == path \in {"absent", ""}

\* A handler's route is the set of paths its test() accepts; `absent' is
\* tested as the text a missing argument converts to.
Matchers == {{"/a"}, Paths}
HandlerLists == UNION {[1..n -> Matchers] : n \in 0..MaxRoutes}

\* The handlers of the framework an instance holds (lines 115-117).
Handlers(app) == handlers[backbone[app]]

\* _(handlers).find(test), line 117: the first element of the array that
\* passes, identified by its index; 0 when none does.
find(hs, path) ==
  IF \E i \in 1..Len(hs) : path \in hs[i]
  THEN CHOOSE i \in 1..Len(hs) :
         path \in hs[i] /\ \A j \in 1..(i - 1) : path \notin hs[j]
  ELSE 0

\* Doppelganger.prototype.routeExists, lines 114-118.  The result is false,
\* true, or a handler of the array.
routeExists_last(app, path) ==
  IF backbone[app] = 0 THEN [kind |-> "false", handler |-> 0]
  ELSE IF Len(Handlers(app)) = 0 /\ Falsy(path)
       THEN [kind |-> "true", handler |-> 0]
  ELSE LET S == {i \in 1..Len(Handlers(app)) : path \in Handlers(app)[i]}
       IN IF S # {} THEN [kind |-> "handler",
                          handler |-> CHOOSE i \in S : \A j \in S : j <= i]
                    ELSE [kind |-> "false", handler |-> 0]

routeExists(app, path) ==
  IF backbone[app] = 0 THEN [kind |-> "false", handler |-> 0]
  ELSE IF Len(Handlers(app)) = 0 /\ Falsy(path)
       THEN [kind |-> "true", handler |-> 0]
  ELSE IF find(Handlers(app), path) # 0
       THEN [kind |-> "handler", handler |-> find(Handlers(app), path)]
       ELSE [kind |-> "false", handler |-> 0]

\* The condition of navigate(), line 125.
navigates_anyRoute(app, path) == routeExists(app, path).kind # "false"

navigates(app, path) ==
  routeExists(app, path).kind # "false" /\ Len(Handlers(app)) # 0

\* The application leaves its framework's history.handlers array as hs
\* (read at lines 115-117).
SetHandlers(r, hs) ==
  /\ stack = <<>>
  /\ Patched(r)
  /\ handlers[r] # hs
  /\ handlers' = [handlers EXCEPT ![r] = hs]
  /\ UNCHANGED <<serVars, instVars, ovlVars, callVars, lastCall, prior,
                 lastRoute>>

\* routeExists(path) is called on an instance.
RouteExists(app, path) ==
  /\ stack = <<>>
  /\ lastRoute' = [op |-> "routeExists", app |-> app, path |-> path,
                   result |-> routeExists(app, path), trigger |-> FALSE]
  /\ UNCHANGED <<serVars, instVars, ovlVars, callVars, lastCall, prior,
                 handlers>>

\* navigate(path) is called on an instance, lines 124-128: the wrapped
\* history.navigate is entered with the trigger flag, or nothing happens.
Navigate(app, path) ==
  /\ stack = <<>>
  /\ IF navigates(app, path)
     THEN /\ enterWrapped(backbone[app], "navigate")
          /\ lastRoute' = [op |-> "navigate", app |-> app, path |-> path,
                           result |-> [kind |-> "called", handler |-> 0],
                           trigger |-> TRUE]
          /\ UNCHANGED handlers
     ELSE /\ lastRoute' = [op |-> "navigate", app |-> app, path |-> path,
                           result |-> [kind |-> "noop", handler |-> 0],
                           trigger |-> FALSE]
          /\ UNCHANGED <<serVars, instVars, ovlVars, callVars, lastCall,
                         prior, handlers>>

\* The init pipeline together with the routing calls, for runs of at most
\* MaxRouteReq init() calls.
RouteNested == {0} \cup (IF nextReq <= MaxRouteReq THEN Apps ELSE {})

RouteNext ==
  \/ \E app \in Apps : nextReq <= MaxRouteReq /\ CallInit(app)
  \/ \E r \in Reqs, data \in CallFileData : ReadFileCallback(r, data)
  \/ \E r \in Reqs : JQueryCallback(r)
  \/ \E r \in Reqs, nested \in RouteNested : BackboneCallback(r, nested)
  \/ \E r \in Reqs, nested \in RouteNested : RootDepsCallback(r, nested)
  \/ \E r \in Reqs, hs \in HandlerLists : SetHandlers(r, hs)
  \/ \E app \in Apps, path \in Paths : RouteExists(app, path)
  \/ \E app \in Apps, path \in Paths : Navigate(app, path)
  \/ WrappedReturn

RouteSpec == Init /\ [][RouteNext]_vars

\* ------------------------------------------------------------ properties

Requested(r) == r < nextReq
InQueue(r) == \E i \in 1..Len(initQueue) : initQueue[i] = r
Occurs(seq, x) == Cardinality({i \in 1..Len(seq) : seq[i] = x})
Position(seq, x) == CHOOSE i \in 1..Len(seq) : seq[i] = x

\* Request r has been admitted and _handleAppInitialised has not run for it.
InPipeline(r) == pc[r] \in {"reading", "jquery", "backbone", "rootdeps", "crashed"}

\* Request r has taken no pipeline step.
Untouched(r) ==
  /\ trace[r] = <<>>
  /\ document[reqApp[r]] # r
  /\ requirejsH[reqApp[r]] # r
  /\ backbone[reqApp[r]] # r
  /\ \A n \in Names : globals[r][n] = 0
  /\ rootDependencies[r] = "unset"
  /\ loaderConfig[r] = "unset"

\* C1: at most one request is between admission and _handleAppInitialised;
\* every other requested init that has not completed is in initQueue and has
\* taken no pipeline step.
C1_MutualExclusion ==
  /\ Cardinality({r \in Reqs : InPipeline(r)}) <= 1
  /\ \A r \in Reqs :
       Requested(r) /\ ~InPipeline(r) /\ pc[r] # "done"
         => InQueue(r) /\ Occurs(initQueue, r) = 1 /\ Untouched(r)
  /\ \A r \in Reqs : InPipeline(r) => initialising /\ ~InQueue(r)

\* One request is loading jQuery with its window installed while two others
\* wait, one of them a repeated init() of the same instance.
C1_Witness ==
  /\ \E r \in Reqs : pc[r] = "jquery"
  /\ Len(initQueue) = 2
  /\ reqApp[initQueue[1]] = reqApp[initQueue[2]]

\* C2: requests are admitted in the order in which init() was called and
\* their callbacks are invoked in that order: the admitted requests are
\* 1, 2, ..., the queue holds the following ones in order, and the callbacks
\* invoked are a prefix of the admissions.
C2_FifoOrder ==
  /\ \A i \in 1..Len(admitted) : admitted[i] = i
  /\ \A i \in 1..Len(initQueue) : initQueue[i] = Len(admitted) + i
  /\ Len(callbacks) <= Len(admitted)
  /\ \A i \in 1..Len(callbacks) : callbacks[i] = admitted[i]

\* Three requests, all made before any completed, have all completed.
C2_Witness ==
  /\ early = 3
  /\ admitted = <<1, 2, 3>>
  /\ callbacks = <<1, 2, 3>>

\* C3: a request whose pipeline failed (read error or malformed config) does
\* not keep the slot: completion has been observed for it, so the slot is
\* free or held by another request.
C3_FailureReleasesSlot ==
  \A r \in Reqs :
    pc[r] = "crashed" =>
      ~(initialising /\ admitted # <<>> /\ admitted[Len(admitted)] = r)

\* No collaborator call is outstanding.
Quiescent == \A r \in Reqs : pc[r] \notin {"reading", "jquery", "backbone", "rootdeps"}

\* Every file read so far has called back successfully.
ReadsSucceeded == \A r \in Reqs : Occurs(trace[r], "readError") = 0

\* C4: when every collaborator call has called back successfully, every
\* init(callback) made has run to the end and its callback has been invoked
\* exactly once; no callback is ever invoked twice.
C4_CompletesExactlyOnce ==
  /\ \A r \in Reqs : Occurs(callbacks, r) <= 1
  /\ ReadsSucceeded /\ Quiescent
       => \A r \in Reqs : Requested(r) => Occurs(callbacks, r) = 1

\* Closure r has an install of name n outstanding.
Holds(r, n) == globals[r][n] > 0

\* C5: while any instance holds a name the global slot stays set, and two
\* different instances never hold the same name at the same time (their
\* values for it differ).
C5_NoCrossInstanceOverwrite ==
  \A n \in Names :
    /\ (\E r \in Reqs : Holds(r, n)) => global[n] # 0
    /\ \A r1, r2 \in Reqs :
         Holds(r1, n) /\ Holds(r2, n) => reqApp[r1] = reqApp[r2]

\* Every wrapped history call made has returned.
CallsReturned == stack = <<>> /\ thrown = 0

\* No pipeline is between _setGlobal('window') and the jQuery callback.
NoWindowPhase == \A r \in Reqs : pc[r] # "jquery"

\* The overlay is balanced and clear.
Balanced ==
  \A n \in Names :
    /\ outstanding[n] = 0
    /\ \A r \in Reqs : globals[r][n] = 0
    /\ global[n] = 0

\* C7 as stated: once some instance's init pipeline has completed and every
\* wrapped history call has returned, installs equal removes, no dictionary
\* has an entry and no global slot exists.
C7_BalanceAfterOwnPipeline ==
  (\E r \in Reqs : pc[r] = "done") /\ CallsReturned => Balanced

\* C7 amended: the same, provided no other pipeline is between its window
\* install and the jQuery callback.
C7_BalanceWhenNoPipelineHoldsWindow ==
  (\E r \in Reqs : pc[r] = "done") /\ CallsReturned /\ NoWindowPhase => Balanced

\* Two pipelines have completed, the second after wrapped calls were made on
\* the first one's history methods, and all of them have returned.
C7_Witness ==
  /\ \E r1, r2 \in Reqs : r1 # r2 /\ pc[r1] = "done" /\ pc[r2] = "done"
  /\ returned
  /\ CallsReturned
  /\ NoWindowPhase
  /\ Balanced

\* C8: a wrapped call that exits by an exception has, on exit, decremented
\* every count it incremented, and a name whose count is back to zero has no
\* global slot.
C8_ReleaseOnThrow ==
  [][thrown' = thrown + 1 =>
       \A n \in Bindings(Head(stack).op) :
         /\ globals'[Head(stack).req][n] = globals[Head(stack).req][n] - 1
         /\ globals'[Head(stack).req][n] = 0 => global'[n] = 0]_vars

\* The callback of some init() on this instance has been invoked.
CallbackFired(app) == \E i \in 1..Len(callbacks) : reqApp[callbacks[i]] = app

\* C9: require() fails with the not-initialised error as long as no init
\* callback of the instance has been invoked, and is forwarded to the
\* instance's configured loader afterwards.
C9_RequireNeedsCompletedInit ==
  \A app \in Apps :
    IF CallbackFired(app)
    THEN require(app).result = "forwarded" /\ require(app).loader = requirejsH[app]
    ELSE require(app).result = "error"

Before(seq, x, y) ==
  /\ Occurs(seq, x) = 1
  /\ Occurs(seq, y) = 1
  /\ Position(seq, x) < Position(seq, y)

\* C10: the config handed to the loader has no deps; a root-dependency load
\* is requested at most once and only after jQuery and Backbone resolved and
\* Backbone was patched; without deps no root load is requested and
\* completion directly follows the patch.
C10_RootDepsDeferred ==
  \A r \in Reqs :
    /\ loaderConfig[r] \in {"unset", "absent"}
    /\ Occurs(trace[r], "loadRoot") <= 1
    /\ Occurs(trace[r], "loadRoot") = 1 =>
         /\ rootDependencies[r] \in {"empty", "list"}
         /\ Before(trace[r], "jquery", "loadRoot")
         /\ Before(trace[r], "backbone", "loadRoot")
         /\ Before(trace[r], "patch", "loadRoot")
    /\ rootDependencies[r] = "null" /\ Occurs(trace[r], "patch") = 1 =>
         /\ Occurs(trace[r], "loadRoot") = 0
         /\ Occurs(trace[r], "complete") = 1
         /\ Position(trace[r], "complete") = Position(trace[r], "patch") + 1

\* One request with a deps list and one without have both completed.
C10_Witness ==
  \E r1, r2 \in Reqs :
    /\ pc[r1] = "done" /\ rootDependencies[r1] = "list"
    /\ Occurs(trace[r1], "loadRoot") = 1
    /\ pc[r2] = "done" /\ rootDependencies[r2] = "null"

\* The init() calls made on an instance that have built a document.
Built(app) == {r \in Reqs : reqApp[r] = app /\ InQueue(r) = FALSE /\ Requested(r)}

Latest(S) == CHOOSE r \in S : \A q \in S : q <= r

\* C13: getHTML() is the empty string on an instance init() was never called
\* on; once a callback of the instance has been invoked it is the non-empty
\* markup of the document built by the instance's most recent init pipeline.
C13_GetHTML ==
  \A app \in Apps :
    /\ (\A r \in Reqs : Requested(r) => reqApp[r] # app) => getHTML(app) = <<>>
    /\ CallbackFired(app) =>
         /\ getHTML(app) # <<>>
         /\ getHTML(app) = innerHTML(Latest(Built(app)))

\* An instance has been initialised twice and shows its second document,
\* while the other instance was never initialised.
C13_Witness ==
  \E app \in Apps, r1, r2 \in Reqs :
    /\ r1 < r2 /\ reqApp[r1] = app /\ reqApp[r2] = app
    /\ pc[r1] = "done" /\ pc[r2] = "done"
    /\ getHTML(app) = innerHTML(r2)
    /\ \E other \in Apps : getHTML(other) = <<>>

\* _handleAppInitialised runs in this step.
Completes == Len(callbacks') = Len(callbacks) + 1

\* C14: the queue is non-empty only while the flag is set; a completion with
\* a non-empty queue starts exactly the head in the same step and leaves the
\* flag set; the flag is cleared only by a completion with an empty queue.
C14_QueueInvariant ==
  /\ [](Len(initQueue) > 0 => initialising)
  /\ [][/\ Completes /\ initQueue # <<>> =>
             /\ initialising'
             /\ pc'[Head(initQueue)] = "reading"
             /\ admitted' = Append(admitted, Head(initQueue))
             /\ \/ initQueue' = Tail(initQueue)
                \/ initQueue' = Append(Tail(initQueue), nextReq)
        /\ initialising /\ ~initialising' =>
             Completes /\ initQueue = <<>> /\ initQueue' = <<>>]_vars

\* Three requests were made before any completed; the first has completed,
\* the second was taken from the queue in that step and the third waits.
C14_Witness ==
  /\ early = 3
  /\ callbacks = <<1>>
  /\ initialising
  /\ pc[2] = "reading"
  /\ initQueue = <<3>>

\* C16: when a callback calls init(), the completing pipeline has already
\* handed the slot on: the head of the queue is running and the new request
\* waits behind the rest of the queue, or, with an empty queue, the new
\* request starts at once.
C16_CompletionBeforeCallback ==
  [][Completes =>
       /\ initQueue # <<>> => pc'[Head(initQueue)] = "reading"
       /\ nextReq' = nextReq + 1 =>
            IF initQueue = <<>>
            THEN pc'[nextReq] = "reading" /\ initQueue' = <<>>
            ELSE /\ pc'[nextReq] = "queued"
                 /\ initQueue' = Append(Tail(initQueue), nextReq)]_vars

\* The first callback called init() while a second request was waiting: the
\* second runs and the new one waits.
C16_Witness ==
  /\ Occurs(trace[1], "callbackInit") = 1
  /\ callbacks = <<1>>
  /\ pc[2] = "reading"
  /\ pc[3] = "queued"
  /\ initQueue = <<3>>

\* C18: an instance never has a loader without a framework, nor a framework
\* without a loader, at any point a caller can call it.
C18_LoaderAndFrameworkTogether ==
  \A app \in Apps : (requirejsH[app] = 0) <=> (backbone[app] = 0)

\* C19 as stated: a waiting request has built its instance's new document.
C19_QueuedOwnsDocument ==
  \A r \in Reqs : pc[r] = "queued" => document[reqApp[r]] = r

\* C19 amended: a waiting request has built nothing; its instance shows the
\* document of an earlier pipeline or none, and a request builds its document
\* as the first step after it is granted the slot.
C19_DocumentBuiltOnAdmission ==
  \A r \in Reqs :
    /\ pc[r] = "queued" =>
         /\ trace[r] = <<>>
         /\ document[reqApp[r]] # r
         /\ getHTML(reqApp[r]) # innerHTML(r)
    /\ Requested(r) /\ pc[r] # "queued" =>
         /\ trace[r][1] = "document"
         /\ document[reqApp[r]] >= r

\* A request waits on an instance that has no document yet.
C19_Witness ==
  \E r \in Reqs :
    /\ pc[r] = "queued"
    /\ getHTML(reqApp[r]) = <<>>
    /\ \E q \in Reqs : pc[q] = "jquery"

\* C15: a name is counted in some `globals` dictionary exactly when its global
\* slot is set.
C15_CountedIffSet ==
  \A n \in Names : (\E r \in Reqs : globals[r][n] > 0) <=> global[n] # 0

\* C17: while a pipeline waits for jQuery the global window is its window;
\* when it requests Backbone, requests the root dependencies or completes,
\* its window is not the global window.
C17_WindowOverlayScope ==
  /\ [](\A r \in Reqs : pc[r] = "jquery" => global["window"] = r)
  /\ [][\A r \in Reqs :
          pc'[r] # pc[r] /\ pc'[r] \in {"backbone", "rootdeps", "done"}
            => global'["window"] # r]_vars

\* The handlers array routeExists() and navigate() read for instance a.
Routes(a) == IF backbone[a] = 0 THEN <<>> ELSE handlers[backbone[a]]
Accepting(a, p) == {i \in 1..Len(Routes(a)) : p \in Routes(a)[i]}

ShouldNavigate(a, p) ==
  backbone[a] # 0 /\ Len(Routes(a)) > 0 /\ Accepting(a, p) # {}

C12_NavigateExactlyWhenRouted ==
  [][/\ Len(stack') > Len(stack) =>
          /\ lastRoute'.op = "navigate"
          /\ ShouldNavigate(lastRoute'.app, lastRoute'.path)
          /\ lastRoute'.trigger
          /\ Head(stack') = [req |-> backbone[lastRoute'.app],
                             op |-> "navigate"]
     /\ (lastRoute' # lastRoute /\ lastRoute'.op = "navigate") =>
          IF ShouldNavigate(lastRoute'.app, lastRoute'.path)
          THEN Len(stack') > Len(stack) /\ lastRoute'.result.kind = "called"
          ELSE /\ lastRoute'.result.kind = "noop"
               /\ UNCHANGED <<serVars, instVars, ovlVars, callVars, lastCall,
                              prior, handlers>>]_vars

\* navigate() is inside the framework's navigation, called with the trigger
\* flag, with the document binding installed.
C12_Witness ==
  /\ lastRoute.op = "navigate"
  /\ lastRoute.result.kind = "called"
  /\ lastRoute.trigger
  /\ stack = <<[req |-> backbone[lastRoute.app], op |-> "navigate"]>>
  /\ global["document"] = backbone[lastRoute.app]

\* ------------------------------------------------ the overlay on its own
\* _setGlobal and _unsetGlobal as functions of their arguments: one `globals`
\* dictionary (that of closure 1) and the global object, driven by arbitrary
\* calls with arbitrary values.

OvValues == {1, 2}

\* What a slot of the global object holds before the first call: nothing, or
\* a value that is none of the installed ones.
OvPrior == {0, 3}

OverlayInit == \E g \in [Names -> OvPrior] : InitWith(g)

OvInstall(name, value) ==
  /\ globals[1][name] < MaxNest
  /\ LET set == _setGlobal(globals[1], global, name, value)
     IN /\ globals' = [globals EXCEPT ![1] = set.globals]
        /\ global' = set.global
        /\ lastCall' = [op |-> "install", name |-> name, value |-> value,
                        ret |-> set.ret]
  /\ UNCHANGED <<serVars, instVars, outstanding, callVars, prior, routeVars>>

\* A remove that puts back what the slot held before the first install.
OvRemove_restore(name) ==
  /\ LET unset == _unsetGlobal(globals[1], global, name)
     IN /\ globals' = [globals EXCEPT ![1] = unset.globals]
        /\ global' = IF unset.ret = TRUE
                     THEN [unset.global EXCEPT ![name] = prior[name]]
                     ELSE unset.global
        /\ lastCall' = [op |-> "remove", name |-> name, value |-> 0,
                        ret |-> unset.ret]
  /\ UNCHANGED <<serVars, instVars, outstanding, callVars, prior, routeVars>>

OvRemove(name) ==
  /\ LET unset == _unsetGlobal(globals[1], global, name)
     IN /\ globals' = [globals EXCEPT ![1] = unset.globals]
        /\ global' = unset.global
        /\ lastCall' = [op |-> "remove", name |-> name, value |-> 0,
                        ret |-> unset.ret]
  /\ UNCHANGED <<serVars, instVars, outstanding, callVars, prior, routeVars>>

OverlayNext ==
  \/ \E name \in Names, value \in OvValues : OvInstall(name, value)
  \/ \E name \in Names : OvRemove(name)

OverlaySpec == OverlayInit /\ [][OverlayNext]_vars

C20_RemoveDeletes ==
  /\ [](lastCall.op = "remove" /\ lastCall.ret = TRUE =>
          globals[1][lastCall.name] = 0 /\ global[lastCall.name] = 0)
  /\ [][/\ \A n \in Names :
            globals[1][n] = 1 /\ globals'[1][n] = 0 => global'[n] = 0
        /\ (lastCall'.op = "remove" /\ globals[1][lastCall'.name] = 0) =>
             /\ globals' = globals
             /\ global' = global
             /\ lastCall'.ret = FALSE]_vars

\* A slot that held a value before the first install is absent after the
\* last remove.
C20_Witness ==
  /\ lastCall.op = "remove"
  /\ lastCall.ret = TRUE
  /\ prior[lastCall.name] # 0
  /\ global[lastCall.name] = 0
====
